---- MODULE Spec2Model ----
(***************************************************************************)
(* The semantic-segmentation notebook (week8_lab_session/                  *)
(* SemanticSegmentation.ipynb) as a state machine.  The state is the       *)
(* Jupyter kernel's namespace; there is one action per code cell, and a    *)
(* cell may be run at any time, in any order.  A cell is a sequence of     *)
(* statements: a statement that raises ends the cell, and what the         *)
(* statements before it bound stays bound.                                 *)
(*                                                                         *)
(* Tensors are nested functions over 0-based index ranges, in the axis     *)
(* order of the code: (batch, class, row, column).  Python lists are       *)
(* 0-based functions too.  float32 probabilities are fixed-point numbers   *)
(* with FracBits fractional bits (One stands for 1.0).                     *)
(***************************************************************************)
EXTENDS Integers, Sequences, FiniteSets, TLC

\* ------------------------------------------------------------------ bounds

\* Image height and width in pixels.
Height == 1
Width == 2
\* A logit is 0 or MaxScore.
MaxScore == 1
\* The longest image list and mask batch paired in SpecPair.
MaxPairLen == 3

\* dog_list = [dog1_int, dog2_int]
NumImages == 2
\* Fractional bits of a probability (the float32 significand).
FracBits == 24

Batch == 0 .. (NumImages - 1)
Rows == 0 .. (Height - 1)
Cols == 0 .. (Width - 1)

\* ------------------------------------------------------- lists and tensors

Size(t) == Cardinality(DOMAIN t)

\* A Python list from its elements.
List0(s) == [i \in 0 .. (Len(s) - 1) |-> s[i + 1]]

EmptyList == List0(<<>>)

Min2(a, b) == IF a <= b THEN a ELSE b

RECURSIVE Pow2(_)
Pow2(n) == IF n = 0 THEN 1 ELSE 2 * Pow2(n - 1)

One == Pow2(FracBits)

RECURSIVE SumUpTo(_, _)
SumUpTo(f, n) == IF n < 0 THEN 0 ELSE f[n] + SumUpTo(f, n - 1)

\* The sum of the elements of a vector.
SumVec(v) == SumUpTo(v, Size(v) - 1)

RECURSIVE MaxUpTo(_, _)
MaxUpTo(f, n) ==
    IF n = 0 THEN f[0]
    ELSE LET m == MaxUpTo(f, n - 1) IN IF f[n] > m THEN f[n] ELSE m

MaxVec(v) == MaxUpTo(v, Size(v) - 1)

\* exp(-k) for an integer k >= 0, in units of 1/4096.
RECURSIVE ExpNeg(_)
ExpNeg(k) == IF k = 0 THEN 4096 ELSE (ExpNeg(k - 1) * 1000) \div 2718

\* acc * 2^n + floor(r * 2^n / den) for 0 <= r < den, by long division.
RECURSIVE FixQuot(_, _, _, _)
FixQuot(r, den, n, acc) ==
    IF n = 0 THEN acc
    ELSE IF 2 * r >= den
         THEN FixQuot(2 * r - den, den, n - 1, 2 * acc + 1)
         ELSE FixQuot(2 * r, den, n - 1, 2 * acc)

\* num / den rounded to the nearest multiple of 2^-FracBits, 0 <= num <= den.
FixDiv(num, den) ==
    IF num = den THEN One ELSE (FixQuot(num, den, FracBits + 1, 0) + 1) \div 2

\* softmax of one vector: exp(x - max) / sum(exp(x - max)).
SoftmaxVec(v) ==
    LET mx == MaxVec(v)
        e == [i \in DOMAIN v |-> ExpNeg(mx - v[i])]
        s == SumVec(e)
    IN  [i \in DOMAIN v |-> FixDiv(e[i], s)]

\* softmax along axis 0 of a tensor of the given rank.
RECURSIVE Softmax0(_, _)
Softmax0(t, rank) ==
    IF rank = 1 THEN SoftmaxVec(t)
    ELSE LET inner == [j \in DOMAIN t[0] |->
                          Softmax0([i \in DOMAIN t |-> t[i][j]], rank - 1)]
         IN  [i \in DOMAIN t |-> [j \in DOMAIN t[0] |-> inner[j][i]]]

\* torch.nn.functional.softmax(t, dim)
RECURSIVE Softmax(_, _, _)
Softmax(t, dim, rank) ==
    IF dim = 0 THEN Softmax0(t, rank)
    ELSE [i \in DOMAIN t |-> Softmax(t[i], dim - 1, rank - 1)]

RECURSIVE LastBestScan(_, _)
LastBestScan(v, n) ==
    IF n = 0 THEN 0
    ELSE LET b == LastBestScan(v, n - 1) IN IF v[n] >= v[b] THEN n ELSE b

\* The index the argmax scan holds after elements 0..n of v: an element
\* replaces the best so far only when it is strictly greater.
RECURSIVE FirstBestScan(_, _)
FirstBestScan(v, n) ==
    IF n = 0 THEN 0
    ELSE LET b == FirstBestScan(v, n - 1) IN IF v[n] > v[b] THEN n ELSE b

ArgmaxVecLast(v) == LastBestScan(v, Size(v) - 1)

\* argmax of one vector.
ArgmaxVec(v) == FirstBestScan(v, Size(v) - 1)

\* argmax along axis 0 of a tensor of the given rank.
RECURSIVE Argmax0(_, _)
Argmax0(t, rank) ==
    IF rank = 1 THEN ArgmaxVec(t)
    ELSE [j \in DOMAIN t[0] |-> Argmax0([i \in DOMAIN t |-> t[i][j]], rank - 1)]

\* t.argmax(dim)
RECURSIVE Argmax(_, _, _)
Argmax(t, dim, rank) ==
    IF dim = 0 THEN Argmax0(t, rank)
    ELSE [i \in DOMAIN t |-> Argmax(t[i], dim - 1, rank - 1)]

\* t == v for a scalar v, elementwise.
RECURSIVE EqScalar(_, _, _)
EqScalar(t, v, rank) ==
    IF rank = 0 THEN t = v
    ELSE [i \in DOMAIN t |-> EqScalar(t[i], v, rank - 1)]

\* t >= v for a scalar v, elementwise.
RECURSIVE GeScalar(_, _, _)
GeScalar(t, v, rank) ==
    IF rank = 0 THEN t >= v
    ELSE [i \in DOMAIN t |-> GeScalar(t[i], v, rank - 1)]

ARangeFromOne(n) == [k \in 0 .. (n - 1) |-> k + 1]

\* torch.arange(n)
ARange(n) == [k \in 0 .. (n - 1) |-> k]

GeColumn(t, ar, rank) == [k \in DOMAIN ar |-> GeScalar(t, ar[k], rank)]

\* t == ar[:, None, ..., None] with rank(t) trailing None's: the comparison
\* broadcasts to one layer of t's shape per element of ar.
EqColumn(t, ar, rank) == [k \in DOMAIN ar |-> EqScalar(t, ar[k], rank)]

KeepAxes(t) == t

\* t.swapaxes(0, 1)
Swapaxes01(t) == [j \in DOMAIN t[0] |-> [i \in DOMAIN t |-> t[i][j]]]

ZipAllButLast(a, b) ==
    [i \in 0 .. (Min2(Size(a), Size(b)) - 2) |-> <<a[i], b[i]>>]

\* list(zip(a, b)): pairs up to the end of the shorter.
Zip(a, b) == [i \in 0 .. (Min2(Size(a), Size(b)) - 1) |-> <<a[i], b[i]>>]

LookupOrZero(d, k) ==
    [found |-> TRUE, value |-> IF k \in DOMAIN d THEN d[k] ELSE 0]

\* d[k] of a dict: the value, or KeyError (found = FALSE).
Lookup(d, k) ==
    [found |-> k \in DOMAIN d, value |-> IF k \in DOMAIN d THEN d[k] ELSE 0]

\* ------------------------------------------------- the cells' expressions

\* The 21 categories of the weights' metadata, abridged to the background
\* and the two classes the notebook asks for, in their order there.
VocCategories == List0(<<"__background__", "boat", "dog">>)

NumClasses == Size(VocCategories)

Classes == 0 .. (NumClasses - 1)

\* The metadata a set of weights may carry: the categories, the same with
\* the two classes exchanged, and two that lack one of the names.
CategoryLists ==
    { VocCategories,
      List0(<<"__background__", "dog", "boat">>),
      List0(<<"__background__", "boat", "cat">>),
      List0(<<"__background__", "cat", "dog">>) }

\* {cls: idx for (idx, cls) in enumerate(categories)}
ClassToIdx(cats) ==
    [cls \in {cats[i] : i \in DOMAIN cats} |->
        CHOOSE i \in DOMAIN cats :
            cats[i] = cls /\ \A j \in DOMAIN cats : cats[j] = cls => j <= i]

NormalizedMasksOverBatch(out) == Softmax(out, 0, 4)

\* torch.nn.functional.softmax(output, dim=1)
NormalizedMasks(out) == Softmax(out, 1, 4)

\* [normalized_masks[img_idx, sem_class_to_idx[cls]]
\*  for img_idx in range(len(dog_list)) for cls in ('dog', 'boat')]
DogAndBoatMasks(nm, idx, imgs) ==
    LET names == List0(<<"dog", "boat">>)
    IN  [k \in 0 .. (2 * Size(imgs) - 1) |->
            nm[k \div 2][Lookup(idx, names[k % 2]).value]]

BooleanMasksOverBatch(nm, cdim, c) == EqScalar(Argmax(nm, 0, 4), c, 3)

\* normalized_masks.argmax(class_dim) == sem_class_to_idx['dog']
BooleanMasks(nm, cdim, c) == EqScalar(Argmax(nm, cdim, 4), c, 3)

\* dog1_masks.argmax(class_dim) == torch.arange(num_classes)[:, None, None]
ImageClassMasks(masks, cdim, n) ==
    EqColumn(Argmax(masks, cdim, 3), ARange(n), 2)

\* normalized_masks.argmax(class_dim)
\*     == torch.arange(num_classes)[:, None, None, None]
BatchClassMasks(nm, cdim, n) ==
    EqColumn(Argmax(nm, cdim, 4), ARange(n), 3)

\* draw_segmentation_masks(img, masks=mask, alpha=...): the renderer is
\* external; an overlay is the image and the masks it was drawn from.
DrawSegmentationMasks(img, mask) == [image |-> img, masks |-> mask]

\* [draw_segmentation_masks(img, masks=mask, alpha=0.7)
\*  for img, mask in zip(imgs, masks)]
Overlays(imgs, masks) ==
    LET z == Zip(imgs, masks)
    IN  [i \in DOMAIN z |-> DrawSegmentationMasks(z[i][1], z[i][2])]

FirstSlice(nm, b) == nm[0]

\* normalized_masks[0], for image b
ImageSlice(nm, b) == nm[b]

\* masks[1:]
DropFirst(masks) == [k \in 0 .. (Size(masks) - 2) |-> masks[k + 1]]

StaleClassDim(cur) == cur

\* class_dim = 1 (cell 6)
Cell6ClassDim(cur) == 1

\* class_dim = 0 (cell 8)
Cell8ClassDim(cur) == 0

\* class_dim = 1 (cell 10)
Cell10ClassDim(cur) == 1

\* ------------------------------------------------------------- the kernel

VARIABLES
    categories,             \* weights.meta["categories"]
    scores,                 \* what model(batch)['out'] is for the two images
    ns,                     \* the names bound in the kernel
    dog_list,
    output,
    sem_class_to_idx,
    normalized_masks,
    dog_and_boat_masks,
    class_dim,
    boolean_dog_masks,
    dogs_with_masks,
    num_classes,
    dog1_masks,
    dog1_all_classes_masks,
    dog_with_all_masks,
    all_classes_masks,
    raised,                 \* the exception that ended the last cell run
    shown,                  \* what the last cell run passed to show
    task_pc,                \* per batch element, where its task is
    task_slice,             \* per batch element, what its task has read
    task_out                \* per batch element, what its task has written

vars ==
    << categories, scores, ns, dog_list, output, sem_class_to_idx,
       normalized_masks, dog_and_boat_masks, class_dim, boolean_dog_masks,
       dogs_with_masks, num_classes, dog1_masks, dog1_all_classes_masks,
       dog_with_all_masks, all_classes_masks, raised, shown,
       task_pc, task_slice, task_out >>

tasks == << task_pc, task_slice, task_out >>

\* The value of a name that is not bound.
Unbound == EmptyList

Bound(names) == names \subseteq ns

\* show(imgs) runs to its end: the function is defined and so is what it uses.
CanShow == Bound({"show", "plt", "np", "F"})

ScoreVectors == [Classes -> {0, MaxScore}]

\* An image whose pixels all have the scores v.
UniformImage(v) == [c \in Classes |-> [y \in Rows |-> [x \in Cols |-> v[c]]]]

\* An image with the scores w at pixel (py, px) and v elsewhere.
SpotImage(v, w, py, px) ==
    [c \in Classes |->
        [y \in Rows |-> [x \in Cols |-> IF y = py /\ x = px THEN w[c] ELSE v[c]]]]

\* The scores of a pixel with one class on top, or with all classes level.
PeakVectors ==
    { [c \in Classes |-> IF c = k THEN MaxScore ELSE 0] : k \in Classes }
        \cup { [c \in Classes |-> 0] }

\* Two uniform images, each with one class on top or none.
UniformTensors ==
    { [b \in Batch |-> UniformImage(vs[b])] : vs \in [Batch -> PeakVectors] }

\* Two images, each uniform (one class on top or none) but for one pixel of
\* any scores; the pixel is the same in both.
SpotTensors ==
    { [b \in Batch |-> SpotImage(vs[b], ws[b], p[1], p[2])] :
        vs \in [Batch -> PeakVectors],
        ws \in [Batch -> ScoreVectors],
        p \in Rows \X Cols }

\* What cell 1 imports.
Cell1Names == {"torch", "np", "plt", "F"}

\* What cell 2 defines.
Cell2Names == {"show"}

\* What cell 3 imports and binds.
Cell3Names ==
    {"read_file", "decode_image", "Path", "image_folder", "dog1_int",
     "dog2_int", "dog_list"}

\* What cell 4 imports and binds before it stacks the batch.
Cell4Names ==
    {"fcn_resnet50", "FCN_ResNet50_Weights", "weights", "transforms", "model"}

\* dog_list = [dog1_int, dog2_int]
DogList == List0(<<"dog1.jpg", "dog2.jpg">>)

\* A fresh kernel.
FreshKernel ==
    /\ ns = {}
    /\ dog_list = Unbound
    /\ output = Unbound
    /\ sem_class_to_idx = Unbound
    /\ normalized_masks = Unbound
    /\ dog_and_boat_masks = Unbound
    /\ class_dim = 0
    /\ boolean_dog_masks = Unbound
    /\ dogs_with_masks = Unbound
    /\ num_classes = 0
    /\ dog1_masks = Unbound
    /\ dog1_all_classes_masks = Unbound
    /\ dog_with_all_masks = Unbound
    /\ all_classes_masks = Unbound
    /\ raised = "none"
    /\ shown = "none"

\* No task has started.
NoTasks ==
    /\ task_pc = [b \in Batch |-> "ready"]
    /\ task_slice = [b \in Batch |-> Unbound]
    /\ task_out = [b \in Batch |-> Unbound]

Init ==
    /\ categories \in CategoryLists
    /\ scores \in UniformTensors
    /\ FreshKernel
    /\ NoTasks

\* Cell 1: the imports.
RunCell1 ==
    /\ ns' = ns \cup Cell1Names
    /\ raised' = "none"
    /\ shown' = "none"
    /\ UNCHANGED << tasks, categories, scores, dog_list, output, sem_class_to_idx,
                    normalized_masks, dog_and_boat_masks, class_dim,
                    boolean_dog_masks, dogs_with_masks, num_classes, dog1_masks,
                    dog1_all_classes_masks, dog_with_all_masks,
                    all_classes_masks >>

\* Cell 2: def show.
RunCell2 ==
    /\ ns' = ns \cup Cell2Names
    /\ raised' = "none"
    /\ shown' = "none"
    /\ UNCHANGED << tasks, categories, scores, dog_list, output, sem_class_to_idx,
                    normalized_masks, dog_and_boat_masks, class_dim,
                    boolean_dog_masks, dogs_with_masks, num_classes, dog1_masks,
                    dog1_all_classes_masks, dog_with_all_masks,
                    all_classes_masks >>

\* Cell 3: the two images are read and listed.
RunCell3 ==
    /\ ns' = ns \cup Cell3Names
    /\ dog_list' = DogList
    /\ raised' = "none"
    /\ shown' = "none"
    /\ UNCHANGED << tasks, categories, scores, output, sem_class_to_idx,
                    normalized_masks, dog_and_boat_masks, class_dim,
                    boolean_dog_masks, dogs_with_masks, num_classes, dog1_masks,
                    dog1_all_classes_masks, dog_with_all_masks,
                    all_classes_masks >>

\* Cell 4: the weights and the model are loaded, then the batch is stacked
\* (torch, dog_list) and the model is run on it.
RunCell4 ==
    LET ran == Bound({"torch", "dog_list"})
    IN  /\ ns' = ns \cup {"fcn_resnet50", "FCN_ResNet50_Weights", "weights",
                          "transforms", "model"}
                    \cup (IF ran THEN {"batch", "output"} ELSE {})
        /\ output' = IF ran THEN scores ELSE output
        /\ raised' = IF ran THEN "none" ELSE "NameError"
        /\ shown' = "none"
        /\ UNCHANGED << tasks, categories, scores, dog_list, sem_class_to_idx,
                        normalized_masks, dog_and_boat_masks, class_dim,
                        boolean_dog_masks, dogs_with_masks, num_classes,
                        dog1_masks, dog1_all_classes_masks, dog_with_all_masks,
                        all_classes_masks >>

\* Cell 5: the class map (weights), the softmax (torch, output), the
\* probability maps of 'dog' and 'boat' (dog_list, the two lookups), show.
RunCell5 ==
    LET s1 == Bound({"weights"})
        idx == IF s1 THEN ClassToIdx(categories) ELSE sem_class_to_idx
        s2 == s1 /\ Bound({"torch", "output"})
        nm == IF s2 THEN NormalizedMasks(output) ELSE normalized_masks
        s3 == s2 /\ Bound({"dog_list"})
        looked == s3 /\ Size(dog_list) > 0
        found == ~looked \/ (Lookup(idx, "dog").found /\ Lookup(idx, "boat").found)
        s4 == s3 /\ found
        s5 == s4 /\ CanShow
    IN  /\ ns' = ns \cup (IF s1 THEN {"sem_class_to_idx"} ELSE {})
                    \cup (IF s2 THEN {"normalized_masks"} ELSE {})
                    \cup (IF s4 THEN {"dog_and_boat_masks"} ELSE {})
        /\ raised' = IF ~s3 THEN "NameError"
                     ELSE IF ~s4 THEN "KeyError"
                     ELSE IF ~s5 THEN "NameError" ELSE "none"
        /\ shown' = IF s5 THEN "dog_and_boat_masks" ELSE "none"
        /\ sem_class_to_idx' = idx
        /\ normalized_masks' = nm
        /\ dog_and_boat_masks' =
              IF s4 THEN DogAndBoatMasks(nm, idx, dog_list)
              ELSE dog_and_boat_masks
        /\ UNCHANGED << tasks, categories, scores, dog_list, output, class_dim,
                        boolean_dog_masks, dogs_with_masks, num_classes,
                        dog1_masks, dog1_all_classes_masks, dog_with_all_masks,
                        all_classes_masks >>

\* Cell 6: class_dim, the boolean masks of 'dog' (normalized_masks, the
\* lookup), show.
RunCell6 ==
    LET cd == Cell6ClassDim(class_dim)
        s1 == Bound({"normalized_masks", "sem_class_to_idx"})
        dog == Lookup(sem_class_to_idx, "dog")
        s2 == s1 /\ dog.found
        s3 == s2 /\ CanShow
    IN  /\ ns' = ns \cup {"class_dim"}
                    \cup (IF s2 THEN {"boolean_dog_masks"} ELSE {})
        /\ raised' = IF ~s1 THEN "NameError"
                     ELSE IF ~s2 THEN "KeyError"
                     ELSE IF ~s3 THEN "NameError" ELSE "none"
        /\ shown' = IF s3 THEN "boolean_dog_masks" ELSE "none"
        /\ class_dim' = cd
        /\ boolean_dog_masks' =
              IF s2 THEN BooleanMasks(normalized_masks, cd, dog.value)
              ELSE boolean_dog_masks
        /\ UNCHANGED << tasks, categories, scores, dog_list, output, sem_class_to_idx,
                        normalized_masks, dog_and_boat_masks, dogs_with_masks,
                        num_classes, dog1_masks, dog1_all_classes_masks,
                        dog_with_all_masks, all_classes_masks >>

\* Cell 7: the import, the overlays of the dog masks (dog_list,
\* boolean_dog_masks), show.
RunCell7 ==
    LET s1 == Bound({"dog_list", "boolean_dog_masks"})
        s2 == s1 /\ CanShow
    IN  /\ ns' = ns \cup {"draw_segmentation_masks"}
                    \cup (IF s1 THEN {"dogs_with_masks"} ELSE {})
        /\ raised' = IF s2 THEN "none" ELSE "NameError"
        /\ shown' = IF s2 THEN "dogs_with_masks" ELSE "none"
        /\ dogs_with_masks' =
              IF s1 THEN Overlays(dog_list, boolean_dog_masks)
              ELSE dogs_with_masks
        /\ UNCHANGED << tasks, categories, scores, dog_list, output, sem_class_to_idx,
                        normalized_masks, dog_and_boat_masks, class_dim,
                        boolean_dog_masks, num_classes, dog1_masks,
                        dog1_all_classes_masks, dog_with_all_masks,
                        all_classes_masks >>

\* Cell 8: num_classes and dog1_masks (normalized_masks), class_dim, the
\* masks of all classes of the first image, its overlay
\* (draw_segmentation_masks, dog1_int), show.
RunCell8 ==
    LET s1 == Bound({"normalized_masks"})
        n == IF s1 THEN Size(normalized_masks[0]) ELSE num_classes
        d1 == IF s1 THEN ImageSlice(normalized_masks, 0) ELSE dog1_masks
        cd == IF s1 THEN Cell8ClassDim(class_dim) ELSE class_dim
        s2 == s1 /\ Bound({"torch"})
        all == IF s2 THEN ImageClassMasks(d1, cd, n) ELSE dog1_all_classes_masks
        s3 == s2 /\ Bound({"draw_segmentation_masks", "dog1_int"})
        s4 == s3 /\ CanShow
    IN  /\ ns' = ns \cup (IF s1 THEN {"num_classes", "dog1_masks", "class_dim"}
                          ELSE {})
                    \cup (IF s2 THEN {"dog1_all_classes_masks"} ELSE {})
                    \cup (IF s3 THEN {"dog_with_all_masks"} ELSE {})
        /\ raised' = IF s4 THEN "none" ELSE "NameError"
        /\ shown' = IF s4 THEN "dog_with_all_masks" ELSE "none"
        /\ num_classes' = n
        /\ dog1_masks' = d1
        /\ class_dim' = cd
        /\ dog1_all_classes_masks' = all
        /\ dog_with_all_masks' =
              IF s3 THEN DrawSegmentationMasks("dog1.jpg", all)
              ELSE dog_with_all_masks
        /\ UNCHANGED << tasks, categories, scores, dog_list, output, sem_class_to_idx,
                        normalized_masks, dog_and_boat_masks, boolean_dog_masks,
                        dogs_with_masks, all_classes_masks >>

\* Cell 10: class_dim, the masks of all classes of the batch
\* (normalized_masks, torch, num_classes), the axis swap, the overlays
\* (draw_segmentation_masks, dog_list), show.
RunCell10 ==
    LET cd == Cell10ClassDim(class_dim)
        s1 == Bound({"normalized_masks", "torch", "num_classes"})
        all == IF s1
               THEN Swapaxes01(BatchClassMasks(normalized_masks, cd, num_classes))
               ELSE all_classes_masks
        s2 == s1 /\ Bound({"draw_segmentation_masks", "dog_list"})
        s3 == s2 /\ CanShow
    IN  /\ ns' = ns \cup {"class_dim"}
                    \cup (IF s1 THEN {"all_classes_masks"} ELSE {})
                    \cup (IF s2 THEN {"dogs_with_masks"} ELSE {})
        /\ raised' = IF s3 THEN "none" ELSE "NameError"
        /\ shown' = IF s3 THEN "dogs_with_masks" ELSE "none"
        /\ class_dim' = cd
        /\ all_classes_masks' = all
        /\ dogs_with_masks' =
              IF s2 THEN Overlays(dog_list, all) ELSE dogs_with_masks
        /\ UNCHANGED << tasks, categories, scores, dog_list, output, sem_class_to_idx,
                        normalized_masks, dog_and_boat_masks, boolean_dog_masks,
                        num_classes, dog1_masks, dog1_all_classes_masks,
                        dog_with_all_masks >>

\* Any cell may be run next.
Next ==
    \/ RunCell1
    \/ RunCell2
    \/ RunCell3
    \/ RunCell4
    \/ RunCell5
    \/ RunCell6
    \/ RunCell7
    \/ RunCell8
    \/ RunCell10

Spec == Init /\ [][Next]_vars

\* ------------------------------------------- the notebook run top to bottom

\* The kernel once cells 1 to 4 have run.
AfterCell4 ==
    /\ ns = Cell1Names \cup Cell2Names \cup Cell3Names \cup Cell4Names
                \cup {"batch", "output"}
    /\ dog_list = DogList
    /\ output = scores
    /\ sem_class_to_idx = Unbound
    /\ normalized_masks = Unbound
    /\ dog_and_boat_masks = Unbound
    /\ class_dim = 0
    /\ boolean_dog_masks = Unbound
    /\ dogs_with_masks = Unbound
    /\ num_classes = 0
    /\ dog1_masks = Unbound
    /\ dog1_all_classes_masks = Unbound
    /\ dog_with_all_masks = Unbound
    /\ all_classes_masks = Unbound
    /\ raised = "none"
    /\ shown = "none"

InitRunAll ==
    /\ categories \in { c \in CategoryLists : {"dog", "boat"} \subseteq DOMAIN ClassToIdx(c) }
    /\ scores \in SpotTensors
    /\ AfterCell4
    /\ NoTasks

\* Cells 5, 6, 7, 8 and 10, each once, in the order of the notebook.
NextRunAll ==
    \/ ~Bound({"normalized_masks"}) /\ RunCell5
    \/ Bound({"normalized_masks"}) /\ ~Bound({"boolean_dog_masks"}) /\ RunCell6
    \/ Bound({"boolean_dog_masks"}) /\ ~Bound({"dogs_with_masks"}) /\ RunCell7
    \/ Bound({"dogs_with_masks"}) /\ ~Bound({"dog1_all_classes_masks"}) /\ RunCell8
    \/ Bound({"dog1_all_classes_masks"}) /\ ~Bound({"all_classes_masks"}) /\ RunCell10

SpecRunAll == InitRunAll /\ [][NextRunAll]_vars

\* ------------------------------------------------ the pairing, on any lists

\* The lists of at most n elements of S.
RECURSIVE ListsUpTo(_, _)
ListsUpTo(S, n) ==
    IF n = 0 THEN {EmptyList}
    ELSE LET shorter == ListsUpTo(S, n - 1)
         IN  shorter \cup
             { [i \in 0 .. Size(l) |-> IF i < Size(l) THEN l[i] ELSE e] :
                 l \in {m \in shorter : Size(m) = n - 1}, e \in S }

\* A mask of one image, the same at every pixel.
UniformMask(v) == [y \in Rows |-> [x \in Cols |-> v]]

\* The kernel holds a list of images and a batch of boolean masks, of any
\* two lengths, and cell 7 has not run.
InitPair ==
    /\ categories = VocCategories
    /\ scores = [b \in Batch |-> UniformImage([c \in Classes |-> 0])]
    /\ output = Unbound
    /\ sem_class_to_idx = Unbound
    /\ normalized_masks = Unbound
    /\ dog_and_boat_masks = Unbound
    /\ class_dim = 0
    /\ dogs_with_masks = Unbound
    /\ num_classes = 0
    /\ dog1_masks = Unbound
    /\ dog1_all_classes_masks = Unbound
    /\ dog_with_all_masks = Unbound
    /\ all_classes_masks = Unbound
    /\ raised = "none"
    /\ shown = "none"
    /\ ns = Cell1Names \cup Cell2Names \cup {"dog_list", "boolean_dog_masks"}
    /\ dog_list \in ListsUpTo({"dog1.jpg", "dog2.jpg"}, MaxPairLen)
    /\ boolean_dog_masks \in
          ListsUpTo({UniformMask(TRUE), UniformMask(FALSE)}, MaxPairLen)
    /\ NoTasks

NextPair == RunCell7

SpecPair == InitPair /\ [][NextPair]_vars

\* ------------------------------------- the batch elements as parallel tasks

\* The task of batch element b reads its image's slice of normalized_masks.
TaskRead(b) ==
    /\ Bound({"normalized_masks", "num_classes"})
    /\ task_pc[b] = "ready"
    /\ task_slice' = [task_slice EXCEPT ![b] = ImageSlice(normalized_masks, b)]
    /\ task_pc' = [task_pc EXCEPT ![b] = "read"]
    /\ UNCHANGED << categories, scores, ns, dog_list, output, sem_class_to_idx,
                    normalized_masks, dog_and_boat_masks, class_dim,
                    boolean_dog_masks, dogs_with_masks, num_classes, dog1_masks,
                    dog1_all_classes_masks, dog_with_all_masks,
                    all_classes_masks, raised, shown, task_out >>

\* The task of batch element b writes the per-class stack of its slice, as
\* cell 8 computes it for the first image.
TaskWrite(b) ==
    /\ task_pc[b] = "read"
    /\ task_out' = [task_out EXCEPT ![b] =
                       ImageClassMasks(task_slice[b], Cell8ClassDim(class_dim),
                                       num_classes)]
    /\ task_pc' = [task_pc EXCEPT ![b] = "done"]
    /\ UNCHANGED << categories, scores, ns, dog_list, output, sem_class_to_idx,
                    normalized_masks, dog_and_boat_masks, class_dim,
                    boolean_dog_masks, dogs_with_masks, num_classes, dog1_masks,
                    dog1_all_classes_masks, dog_with_all_masks,
                    all_classes_masks, raised, shown, task_slice >>

\* Image b is replaced by one of scores v and cells 4 and 5 are run again; the
\* task of b starts over, the other tasks go on.
ChangeImage(b, v) ==
    /\ Bound({"normalized_masks", "num_classes"})
    /\ scores[b] # UniformImage(v)
    /\ scores' = [scores EXCEPT ![b] = UniformImage(v)]
    /\ output' = scores'
    /\ normalized_masks' = NormalizedMasks(output')
    /\ dog_and_boat_masks' =
          DogAndBoatMasks(normalized_masks', sem_class_to_idx, dog_list)
    /\ raised' = "none"
    /\ shown' = "dog_and_boat_masks"
    /\ task_pc' = [task_pc EXCEPT ![b] = "ready"]
    /\ task_slice' = [task_slice EXCEPT ![b] = Unbound]
    /\ task_out' = [task_out EXCEPT ![b] = Unbound]
    /\ UNCHANGED << categories, ns, dog_list, sem_class_to_idx, class_dim,
                    boolean_dog_masks, dogs_with_masks, num_classes, dog1_masks,
                    dog1_all_classes_masks, dog_with_all_masks,
                    all_classes_masks >>

InitPar ==
    /\ categories = VocCategories
    /\ scores \in UniformTensors
    /\ AfterCell4
    /\ NoTasks

\* Cells 5 and 8 run, then the tasks, in any interleaving, while images change.
NextPar ==
    \/ ~Bound({"normalized_masks"}) /\ RunCell5
    \/ Bound({"normalized_masks"}) /\ ~Bound({"num_classes"}) /\ RunCell8
    \/ \E b \in Batch : TaskRead(b)
    \/ \E b \in Batch : TaskWrite(b)
    \/ \E b \in Batch, v \in PeakVectors : ChangeImage(b, v)

SpecPar == InitPar /\ [][NextPar]_vars

\* ------------------------------------------------------------- properties

Pixels == Rows \X Cols

\* The probabilities of the classes at pixel (y, x) of image b.
ProbsAt(nm, b, y, x) == [c \in DOMAIN nm[b] |-> nm[b][c][y][x]]

\* The classes whose probability no class exceeds.
MaximalClasses(p) == { c \in DOMAIN p : \A d \in DOMAIN p : p[d] <= p[c] }

\* The lowest of the classes of maximal probability.
TopClass(p) ==
    CHOOSE c \in MaximalClasses(p) : \A d \in MaximalClasses(p) : c <= d

\* Class k has, at every pixel of image b, a probability above all others.
StrictTopEverywhere(nm, b, k) ==
    \A q \in Pixels : \A d \in DOMAIN nm[b] :
        d # k => nm[b][d][q[1]][q[2]] < nm[b][k][q[1]][q[2]]

\* The layers of a stack (class, row, column) that are true at pixel q.
TrueLayers(stack, q) == { c \in DOMAIN stack : stack[c][q[1]][q[2]] }

\* C1: the per-class boolean stack has at most one true layer at every pixel
\* of every image, in the single-image stack (cell 8) and in the batch stack
\* (cell 10).
C1_AtMostOneTrueLayer ==
    /\ Bound({"dog1_all_classes_masks"}) =>
          \A q \in Pixels :
              Cardinality(TrueLayers(dog1_all_classes_masks, q)) <= 1
    /\ Bound({"all_classes_masks"}) =>
          \A b \in DOMAIN all_classes_masks : \A q \in Pixels :
              Cardinality(TrueLayers(all_classes_masks[b], q)) <= 1

\* Both stacks are built, and two pixels of an image have different true layers.
C1_Witness ==
    /\ Bound({"dog1_all_classes_masks", "all_classes_masks"})
    /\ \E q1 \in Pixels, q2 \in Pixels :
          /\ TrueLayers(dog1_all_classes_masks, q1) # {}
          /\ TrueLayers(dog1_all_classes_masks, q1)
                # TrueLayers(dog1_all_classes_masks, q2)
          /\ TrueLayers(all_classes_masks[1], q1)
                # TrueLayers(all_classes_masks[1], q2)

\* C2: the binary mask of cell 6 is a (batch, row, column) tensor that is true
\* at pixel (y, x) of image b exactly when the argmax over the class axis
\* there is the index of 'dog'; where a class is the strict maximum at every
\* pixel of an image, the mask of that image is all true if the class is
\* 'dog' and all false otherwise.
C2_BinaryMaskIsArgmaxOfClass ==
    Bound({"boolean_dog_masks"}) =>
        LET dog == sem_class_to_idx["dog"]
        IN  /\ DOMAIN boolean_dog_masks = Batch
            /\ \A b \in Batch :
                  /\ DOMAIN boolean_dog_masks[b] = Rows
                  /\ \A y \in Rows : DOMAIN boolean_dog_masks[b][y] = Cols
            /\ \A b \in Batch, y \in Rows, x \in Cols :
                  boolean_dog_masks[b][y][x]
                     <=> (TopClass(ProbsAt(normalized_masks, b, y, x)) = dog)
            /\ \A b \in Batch, k \in Classes :
                  StrictTopEverywhere(normalized_masks, b, k) =>
                     \A y \in Rows, x \in Cols :
                        boolean_dog_masks[b][y][x] = (k = dog)

\* The mask is built; 'dog' is the strict maximum at every pixel of one
\* image, whose mask is all true, and another class is at every pixel of the
\* other image, whose mask is all false.
C2_Witness ==
    /\ Bound({"boolean_dog_masks"})
    /\ \E b1 \in Batch, b2 \in Batch, k \in Classes :
          /\ k # sem_class_to_idx["dog"]
          /\ StrictTopEverywhere(normalized_masks, b1, sem_class_to_idx["dog"])
          /\ StrictTopEverywhere(normalized_masks, b2, k)
          /\ \A y \in Rows, x \in Cols :
                boolean_dog_masks[b1][y][x] /\ ~boolean_dog_masks[b2][y][x]

\* A batch of the one image img.
OneImageBatch(img) == [i \in {0} |-> img]

\* C3: after the axis swap the batch masks are indexed (image, class, row,
\* column): layer [b][c] is the binary mask of class c computed on image b
\* alone, images are in input order (image 0's stack is cell 8's stack, every
\* image's 'dog' layer is its cell 6 mask), and an image whose top class is k
\* at every pixel has its true layer at class k only.
C3_BatchMasksImageThenClass ==
    Bound({"all_classes_masks"}) =>
        /\ DOMAIN all_classes_masks = Batch
        /\ \A b \in Batch : DOMAIN all_classes_masks[b] = Classes
        /\ \A b \in Batch, c \in Classes :
              all_classes_masks[b][c]
                 = BooleanMasks(OneImageBatch(normalized_masks[b]), 1, c)[0]
        /\ Bound({"dog1_all_classes_masks"}) =>
              all_classes_masks[0] = dog1_all_classes_masks
        /\ Bound({"boolean_dog_masks"}) =>
              \A b \in Batch :
                 all_classes_masks[b][sem_class_to_idx["dog"]]
                    = boolean_dog_masks[b]
        /\ \A b \in Batch, k \in Classes :
              StrictTopEverywhere(normalized_masks, b, k) =>
                 \A c \in Classes, y \in Rows, x \in Cols :
                    all_classes_masks[b][c][y][x] = (c = k)

\* The batch masks are built; 'dog' is on top at every pixel of the first
\* image and 'boat' at every pixel of the second.
C3_Witness ==
    /\ Bound({"all_classes_masks", "dog1_all_classes_masks", "boolean_dog_masks"})
    /\ StrictTopEverywhere(normalized_masks, 0, sem_class_to_idx["dog"])
    /\ StrictTopEverywhere(normalized_masks, 1, sem_class_to_idx["boat"])
    /\ \A q \in Pixels :
          /\ TrueLayers(all_classes_masks[0], q) = {sem_class_to_idx["dog"]}
          /\ TrueLayers(all_classes_masks[1], q) = {sem_class_to_idx["boat"]}

\* The layer of class c is the only true one at pixel q, where c is of
\* maximal probability and every lower class has less.
PicksLowestMaximal(stack, p, q) ==
    \E c \in DOMAIN p :
        /\ TrueLayers(stack, q) = {c}
        /\ \A d \in DOMAIN p : p[d] <= p[c]
        /\ \A d \in DOMAIN p : d < c => p[d] < p[c]

\* C4: the argmax of cells 6, 8 and 10 picks, at every pixel, a class of
\* maximal probability, and the lowest one when several classes share the
\* maximum.
C4_ArgmaxLowestIndexOnTies ==
    /\ Bound({"dog1_all_classes_masks"}) =>
          \A q \in Pixels :
              PicksLowestMaximal(dog1_all_classes_masks,
                                 ProbsAt(normalized_masks, 0, q[1], q[2]), q)
    /\ Bound({"all_classes_masks"}) =>
          \A b \in Batch, q \in Pixels :
              PicksLowestMaximal(all_classes_masks[b],
                                 ProbsAt(normalized_masks, b, q[1], q[2]), q)
    /\ Bound({"boolean_dog_masks"}) =>
          \A b \in Batch, q \in Pixels :
              LET p == ProbsAt(normalized_masks, b, q[1], q[2])
                  dog == sem_class_to_idx["dog"]
              IN  boolean_dog_masks[b][q[1]][q[2]]
                     <=> /\ \A d \in DOMAIN p : p[d] <= p[dog]
                         /\ \A d \in DOMAIN p : d < dog => p[d] < p[dog]

\* The masks are built and, at a pixel of the first image, two classes other
\* than the background share the maximal probability.
C4_Witness ==
    /\ Bound({"dog1_all_classes_masks", "all_classes_masks", "boolean_dog_masks"})
    /\ \E q \in Pixels :
          LET p == ProbsAt(normalized_masks, 0, q[1], q[2])
          IN  /\ Cardinality(MaximalClasses(p)) >= 2
              /\ 0 \notin MaximalClasses(p)
              /\ TrueLayers(dog1_all_classes_masks, q) = {TopClass(p)}

\* |a - b|
Dist(a, b) == IF a >= b THEN a - b ELSE b - a

\* C8: normalized_masks has the shape of output, every element is in [0, 1],
\* and at every pixel of every image the elements sum to 1 across the class
\* axis within 1e-6.
C8_SoftmaxSumsToOne ==
    Bound({"normalized_masks"}) =>
        /\ DOMAIN normalized_masks = DOMAIN output
        /\ \A b \in DOMAIN output :
              /\ DOMAIN normalized_masks[b] = DOMAIN output[b]
              /\ \A c \in DOMAIN output[b], y \in Rows, x \in Cols :
                    /\ normalized_masks[b][c][y][x] >= 0
                    /\ normalized_masks[b][c][y][x] <= One
              /\ \A y \in Rows, x \in Cols :
                    Dist(SumVec(ProbsAt(normalized_masks, b, y, x)), One)
                       <= One \div 1000000

\* The softmax has run, on scores that differ between the classes at a pixel,
\* and at some pixel the rounded probabilities do not sum to exactly 1.
C8_Witness ==
    /\ Bound({"normalized_masks"})
    /\ \E b \in Batch, y \in Rows, x \in Cols :
          SumVec(ProbsAt(normalized_masks, b, y, x)) # One
    /\ \E b \in Batch, y \in Rows, x \in Cols :
          normalized_masks[b][0][y][x] # normalized_masks[b][1][y][x]

\* At pixel q exactly one layer of the stack is true; of masks[1:], layer k
\* is true exactly when the top class is k + 1, and no layer is true exactly
\* when the top class is the background.
PartitionsAndDropsBackground(stack, p, q) ==
    LET rest == DropFirst(stack)
        on == { k \in DOMAIN rest : rest[k][q[1]][q[2]] }
    IN  /\ DOMAIN stack = Classes
        /\ Cardinality(TrueLayers(stack, q)) = 1
        /\ Size(rest) = NumClasses - 1
        /\ \A k \in DOMAIN rest : (k \in on) <=> (TopClass(p) = k + 1)
        /\ (on = {}) <=> (TopClass(p) = 0)

\* C9: the stacks of cells 8 and 10 run over all the classes, so every pixel
\* of every image has exactly one true layer; with layer 0 dropped, layer k
\* is class k + 1 and a pixel has no true layer exactly when its top class is
\* the background.
C9_ExactlyOneLayerBackgroundFirst ==
    /\ Bound({"dog1_all_classes_masks"}) =>
          /\ num_classes = NumClasses
          /\ \A q \in Pixels :
                PartitionsAndDropsBackground(
                    dog1_all_classes_masks,
                    ProbsAt(normalized_masks, 0, q[1], q[2]), q)
    /\ Bound({"all_classes_masks"}) =>
          \A b \in Batch, q \in Pixels :
              PartitionsAndDropsBackground(
                  all_classes_masks[b],
                  ProbsAt(normalized_masks, b, q[1], q[2]), q)

\* The stacks are built; the first image has a pixel whose top class is the
\* background and a pixel whose top class is not.
C9_Witness ==
    /\ Bound({"dog1_all_classes_masks", "all_classes_masks"})
    /\ \E q1 \in Pixels, q2 \in Pixels :
          /\ TopClass(ProbsAt(normalized_masks, 0, q1[1], q1[2])) = 0
          /\ TopClass(ProbsAt(normalized_masks, 0, q2[1], q2[2])) # 0
          /\ TrueLayers(DropFirst(dog1_all_classes_masks), q1) = {}
          /\ TrueLayers(DropFirst(dog1_all_classes_masks), q2) # {}

\* Cell 7 has run.
Cell7Ran == Bound({"draw_segmentation_masks"})

Unknown(name) == name \notin DOMAIN ClassToIdx(categories)

\* C6: a mask or probability map asked for a class name that the class map
\* lacks raises an error at the lookup: the cell ends with KeyError, binds no
\* mask and shows nothing, so no mask of an unknown name is ever bound or
\* shown.
C6_UnknownNameRaisesAtLookup ==
    /\ [](/\ Unknown("dog") =>
               /\ ~Bound({"boolean_dog_masks"})
               /\ ~Bound({"dog_and_boat_masks"})
               /\ shown \notin {"boolean_dog_masks", "dog_and_boat_masks"}
          /\ Unknown("boat") =>
               /\ ~Bound({"dog_and_boat_masks"})
               /\ shown # "dog_and_boat_masks")
    /\ [][/\ (/\ Unknown("dog")
              /\ Bound({"normalized_masks", "sem_class_to_idx"})
              /\ RunCell6) =>
                 /\ raised' = "KeyError"
                 /\ shown' = "none"
                 /\ boolean_dog_masks' = boolean_dog_masks
          /\ (/\ Unknown("dog") \/ Unknown("boat")
              /\ Bound({"weights", "torch", "output", "dog_list"})
              /\ RunCell5) =>
                 /\ raised' = "KeyError"
                 /\ shown' = "none"
                 /\ dog_and_boat_masks' = dog_and_boat_masks]_vars

\* Cell 6 has got as far as the lookup of 'dog', which the class map lacks.
C6_Witness ==
    /\ Unknown("dog")
    /\ Bound({"normalized_masks", "sem_class_to_idx", "class_dim"})
    /\ class_dim = 1
    /\ raised = "KeyError"

\* C10: a mask, once a cell has bound it, is the same after every later run
\* of any cell, in any order, and so are normalized_masks and num_classes:
\* each of cells 6, 8 and 10 sets class_dim before its argmax, so the masks of
\* cell 6 and cell 10 are always those of the class axis of the batch.
C10_RerunsKeepMasks ==
    /\ [](/\ Bound({"boolean_dog_masks"}) =>
               \A b \in Batch, y \in Rows, x \in Cols :
                  boolean_dog_masks[b][y][x]
                     <=> (TopClass(ProbsAt(normalized_masks, b, y, x))
                             = sem_class_to_idx["dog"])
          /\ Bound({"all_classes_masks"}) =>
               \A b \in Batch, c \in Classes, y \in Rows, x \in Cols :
                  all_classes_masks[b][c][y][x]
                     <=> (TopClass(ProbsAt(normalized_masks, b, y, x)) = c)
          /\ Bound({"dog1_all_classes_masks"}) =>
               \A c \in Classes, y \in Rows, x \in Cols :
                  dog1_all_classes_masks[c][y][x]
                     <=> (TopClass(ProbsAt(normalized_masks, 0, y, x)) = c))
    /\ [][/\ Bound({"boolean_dog_masks"}) =>
                boolean_dog_masks' = boolean_dog_masks
          /\ Bound({"dog1_all_classes_masks"}) =>
                dog1_all_classes_masks' = dog1_all_classes_masks
          /\ Bound({"all_classes_masks"}) =>
                all_classes_masks' = all_classes_masks
          /\ Bound({"normalized_masks"}) =>
                normalized_masks' = normalized_masks
          /\ Bound({"num_classes"}) => num_classes' = num_classes]_vars

\* All three masks are bound and cell 8 was the last of the three to run:
\* class_dim is 0, though cell 10, which needs cell 8's num_classes, has run.
C10_Witness ==
    /\ Bound({"boolean_dog_masks", "dog1_all_classes_masks", "all_classes_masks"})
    /\ class_dim = 0
    /\ raised = "none"
    /\ shown = "dog_with_all_masks"

\* The batch result of cell 10 on the current normalized_masks.
BatchResult ==
    Swapaxes01(BatchClassMasks(normalized_masks, Cell10ClassDim(class_dim),
                               num_classes))

\* C7: whatever the interleaving of the tasks, and whatever other images were
\* changed meanwhile, the stack a finished task has written is that image's
\* stack in the batch result; when all tasks have finished, what they have
\* written is the batch result.
C7_TasksMatchBatchResult ==
    /\ \A b \in Batch :
          task_pc[b] = "done" =>
              /\ task_slice[b] = normalized_masks[b]
              /\ task_out[b] = BatchResult[b]
    /\ (\A b \in Batch : task_pc[b] = "done") => task_out = BatchResult

\* Both tasks have finished, on two different images, and the first image was
\* changed after cell 8 ran.
C7_Witness ==
    /\ \A b \in Batch : task_pc[b] = "done"
    /\ normalized_masks[0] # normalized_masks[1]
    /\ dog1_masks # normalized_masks[0]
    /\ task_out[0] # task_out[1]

====
